---- MODULE Spec2Model ----
(***************************************************************************)
(* Lead Script Generator (src/app.py): the classification-and-generation   *)
(* pipeline process_leads and the functions it calls.                      *)
(*                                                                         *)
(* Python values.  A cell of the input table is a scalar: a str, the       *)
(* float NaN that pandas.read_csv puts in an empty cell, or an int.  A     *)
(* value is a record [t, v]: t is the Python type and v the text str()     *)
(* gives for it (for a str, the string itself; for an int, its decimal     *)
(* digits; for NaN, "nan").  Python's str is a TLA+ string; Len, \o,       *)
(* SubSeq, Head and Tail act on it character by character.                 *)
(*                                                                         *)
(* The em dash U+2014 of the templates is one character in Python; it is   *)
(* written "~" here (one character, used nowhere else).                    *)
(***************************************************************************)
EXTENDS Integers, Sequences, FiniteSets, TLC

VARIABLES df, value_prop, sender_name, auto_detect_dna,
          idx, lead_data, results, pc, exc

vars == <<df, value_prop, sender_name, auto_detect_dna,
          idx, lead_data, results, pc, exc>>

(***************************************************************************)
(* Python values and the built-ins the code applies to them                *)
(***************************************************************************)
Str(s) == [t |-> "str", v |-> s]

NaN == [t |-> "float", v |-> "nan"]

PyInt(digits) == [t |-> "int", v |-> digits]

\* str(x), also what an f-string puts for {x}
PyStr(x) == x.v

\* bool(x): the empty str and the int 0 are false; NaN is true
Truthy(x) ==
    CASE x.t = "str" -> x.v # ""
      [] x.t = "int" -> x.v # "0"
      [] OTHER -> TRUE

\* the lower-case letter of each upper-case letter
LowerOf ==
    "A" :> "a" @@ "B" :> "b" @@ "C" :> "c" @@ "D" :> "d" @@ "E" :> "e" @@
    "F" :> "f" @@ "G" :> "g" @@ "H" :> "h" @@ "I" :> "i" @@ "J" :> "j" @@
    "K" :> "k" @@ "L" :> "l" @@ "M" :> "m" @@ "N" :> "n" @@ "O" :> "o" @@
    "P" :> "p" @@ "Q" :> "q" @@ "R" :> "r" @@ "S" :> "s" @@ "T" :> "t" @@
    "U" :> "u" @@ "V" :> "v" @@ "W" :> "w" @@ "X" :> "x" @@ "Y" :> "y" @@
    "Z" :> "z"

LowerChar(c) == IF c \in DOMAIN LowerOf THEN LowerOf[c] ELSE c

\* str.lower()
RECURSIVE Lower(_)
Lower(s) == IF s = "" THEN "" ELSE LowerChar(Head(s)) \o Lower(Tail(s))

\* str.replace(old, new) for a one-character old
RECURSIVE Replace(_, _, _)
Replace(s, old, new) ==
    IF s = "" THEN ""
    ELSE (IF Head(s) = old THEN new ELSE Head(s)) \o Replace(Tail(s), old, new)

\* word in s  (substring test)
Contains(s, word) ==
    \E i \in 1..(Len(s) - Len(word) + 1) : SubSeq(s, i, i + Len(word) - 1) = word

\* any(word in s for word in words)
AnyIn(words, s) == \E w \in words : Contains(s, w)

Whitespace == {" ", "\t", "\n"}

RECURSIVE LStrip(_)
LStrip(s) == IF s # "" /\ Head(s) \in Whitespace THEN LStrip(Tail(s)) ELSE s

RECURSIVE RStrip(_)
RStrip(s) ==
    IF s # "" /\ SubSeq(s, Len(s), Len(s)) \in Whitespace
    THEN RStrip(SubSeq(s, 1, Len(s) - 1))
    ELSE s

\* the longest prefix of s without whitespace
RECURSIVE Word(_)
Word(s) ==
    IF s = "" \/ Head(s) \in Whitespace THEN "" ELSE Head(s) \o Word(Tail(s))

\* s.split(): the whitespace-delimited tokens; only their number being zero
\* and the first of them matter to the code
SplitIsEmpty(s) == LStrip(s) = ""

SplitFirst(s) == Word(LStrip(s))

\* the value of each decimal digit
DigitOf ==
    "0" :> 0 @@ "1" :> 1 @@ "2" :> 2 @@ "3" :> 3 @@ "4" :> 4 @@
    "5" :> 5 @@ "6" :> 6 @@ "7" :> 7 @@ "8" :> 8 @@ "9" :> 9

IsDigit(c) == c \in DOMAIN DigitOf

DigitVal(c) == DigitOf[c]

RECURSIVE AllDigitsOrUnderscore(_)
AllDigitsOrUnderscore(s) ==
    s = "" \/ ((IsDigit(Head(s)) \/ Head(s) = "_") /\ AllDigitsOrUnderscore(Tail(s)))

RECURSIVE DigitsValue(_, _)
DigitsValue(s, acc) ==
    IF s = "" THEN acc
    ELSE IF Head(s) = "_" THEN DigitsValue(Tail(s), acc)
    ELSE DigitsValue(Tail(s), 10 * acc + DigitVal(Head(s)))

\* int(s) for a str s: surrounding whitespace, one optional sign, then digits
\* with single underscores between them; anything else is a ValueError
IntLiteral(s) ==
    LET body == RStrip(LStrip(s))
        signed == body # "" /\ Head(body) \in {"+", "-"}
        digits == IF signed THEN Tail(body) ELSE body
        ok == /\ digits # ""
              /\ IsDigit(Head(digits))
              /\ IsDigit(SubSeq(digits, Len(digits), Len(digits)))
              /\ AllDigitsOrUnderscore(digits)
              /\ ~Contains(digits, "__")
        mag == IF ok THEN DigitsValue(digits, 0) ELSE 0
    IN  [ok |-> ok,
         n  |-> IF signed /\ Head(body) = "-" THEN 0 - mag ELSE mag]

(***************************************************************************)
(* Configuration                                                           *)
(***************************************************************************)
COMPANY_DNA_PROFILES ==
    "High-Growth Startup" :>
        [pain_points |-> <<"scaling quickly", "resource constraints",
                           "proving product-market fit">>,
         values |-> <<"speed", "innovation", "disruption">>,
         tone |-> "energetic and bold"] @@
    "Enterprise" :>
        [pain_points |-> <<"legacy systems", "cross-team alignment",
                           "compliance requirements">>,
         values |-> <<"stability", "proven solutions", "risk mitigation">>,
         tone |-> "professional and strategic"] @@
    "Mid-Market" :>
        [pain_points |-> <<"growing pains", "process optimization",
                           "competitive pressure">>,
         values |-> <<"efficiency", "growth", "partnership">>,
         tone |-> "balanced and consultative"] @@
    "Agency/Consultancy" :>
        [pain_points |-> <<"client delivery", "billable utilization",
                           "differentiation">>,
         values |-> <<"expertise", "client success", "innovation">>,
         tone |-> "collaborative and expert"]

\* d.get(key, default) for a dict d with str keys and any value as the key
\* looked up: a key that is no str (NaN, an int) is in no such dict
DictGet(d, key, default) ==
    IF key.t = "str" /\ key.v \in DOMAIN d THEN d[key.v] ELSE default

(***************************************************************************)
(* Script generation engine                                                *)
(***************************************************************************)
\* lines 60-70: the size rule; [hit, dna]
SizeRule(employees) ==
    LET cleaned == Replace(Replace(PyStr(employees), ",", ""), "+", "")
        emp_count == IntLiteral(cleaned)
    IN  IF Truthy(employees) /\ emp_count.ok
        THEN [hit |-> TRUE,
              dna |-> IF emp_count.n < 50 THEN "High-Growth Startup"
                      ELSE IF emp_count.n < 500 THEN "Mid-Market"
                      ELSE "Enterprise"]
        ELSE [hit |-> FALSE, dna |-> ""]

\* lines 72-78: the keyword rule and the default
KeywordRule(company) ==
    IF AnyIn({"consulting", "agency", "partners", "group"}, company)
    THEN "Agency/Consultancy"
    ELSE IF AnyIn({"inc", "corp", "global", "international"}, company)
    THEN "Enterprise"
    ELSE "Mid-Market"

detect_company_dna(row) ==
    LET company == Lower(PyStr(row.company))
        size == SizeRule(row.employees)
    IN  IF size.hit THEN size.dna ELSE KeywordRule(company)

\* assign_priority with the tiers tested in the wrong order (a fault C6 must detect)
assign_priority_TierTwoFirst(row) ==
    LET title == Lower(PyStr(row.title))
    IN  IF AnyIn({"director", "senior", "manager", "lead"}, title)
        THEN "P2 - Warm"
        ELSE IF AnyIn({"ceo", "cro", "cmo", "coo", "chief", "vp", "vice president",
                       "head of"}, title)
        THEN "P1 - Hot"
        ELSE "P3 - Nurture"

assign_priority(row) ==
    LET title == Lower(PyStr(row.title))
    IN  IF AnyIn({"ceo", "cro", "cmo", "coo", "chief", "vp", "vice president",
                  "head of"}, title)
        THEN "P1 - Hot"
        ELSE IF AnyIn({"director", "senior", "manager", "lead"}, title)
        THEN "P2 - Warm"
        ELSE "P3 - Nurture"

\* The generators get lead_data, which always has first_name and company and
\* never has name: row.get('first_name', row.get('name', 'there').split()[0])
\* evaluates 'there'.split()[0] and returns row['first_name'].
subjects(first_name, company, vp) ==
    "High-Growth Startup" :>
        <<first_name \o " - scaling " \o company \o "'s revenue engine?",
          "Quick win for " \o company \o "'s growth",
          first_name \o ", " \o company \o " + " \o vp \o "?">> @@
    "Enterprise" :>
        <<"Strategic alignment: " \o company \o " revenue operations",
          first_name \o " - optimizing " \o company \o "'s GTM execution",
          "Enterprise " \o vp \o " for " \o company>> @@
    "Mid-Market" :>
        <<first_name \o " - " \o company \o "'s next growth lever",
          "Helping " \o company \o " scale smarter",
          first_name \o ", quick question about " \o company>> @@
    "Agency/Consultancy" :>
        <<"Partnership opportunity: " \o company,
          first_name \o " - elevating " \o company \o "'s client outcomes",
          "For " \o company \o ": " \o vp>>

\* generate_email_subject taking the second subject of the list (a fault C9 must detect)
generate_email_subject_Second(row, company_dna, vp) ==
    LET first_name == PyStr(row.first_name)
        company == PyStr(row.company)
        all == subjects(first_name, company, vp)
    IN  DictGet(all, company_dna, all["Mid-Market"])[2]

generate_email_subject(row, company_dna, vp) ==
    LET first_name == PyStr(row.first_name)
        company == PyStr(row.company)
        all == subjects(first_name, company, vp)
    IN  DictGet(all, company_dna, all["Mid-Market"])[1]

templates(first_name, company, pain, vp, sender) ==
    "High-Growth Startup" :>
        ("Hi " \o first_name \o ",\n\nSaw " \o company \o
         " is making moves ~ congrats on the momentum.\n\nI've bee" \o
         "n helping fast-growing teams like yours solve " \o pain \o
         " through " \o vp \o
         ". The results: faster pipeline, cleaner data, and sales " \o
         "teams that actually trust their CRM.\n\nWould a 15-minut" \o
         "e call this week make sense? Happy to share a quick fram" \o
         "ework that's worked for similar companies.\n\nBest,\n" \o sender) @@
    "Enterprise" :>
        ("Hi " \o first_name \o ",\n\nI've been following " \o company \o
         "'s trajectory and wanted to reach out with a relevant ob" \o
         "servation.\n\nMany enterprise revenue leaders I work wit" \o
         "h are navigating " \o pain \o
         " while trying to drive predictable growth. I specialize " \o
         "in " \o vp \o
         " ~ helping teams like yours turn operational complexity " \o
         "into competitive advantage.\n\nWould you be open to a br" \o
         "ief conversation to explore alignment?\n\nBest regards,\n" \o
         sender) @@
    "Mid-Market" :>
        ("Hi " \o first_name \o
         ",\n\nQuick note ~ I work with mid-market companies like " \o
         company \o " on " \o vp \o
         ".\n\nThe common challenge I see: " \o pain \o
         ". The solution doesn't have to be complex.\n\nIf this re" \o
         "sonates, I'd love to share a framework that's helped sim" \o
         "ilar teams. 15 minutes ~ no pitch, just value.\n\nBest,\n" \o
         sender) @@
    "Agency/Consultancy" :>
        ("Hi " \o first_name \o ",\n\nI came across " \o company \o
         " and was impressed by your work.\n\nI partner with agenc" \o
         "ies and consultancies on " \o vp \o
         " ~ specifically helping with " \o pain \o
         ". It's often the difference between good delivery and ex" \o
         "ceptional client outcomes.\n\nWould you be open to a qui" \o
         "ck conversation about how we might collaborate?\n\nBest," \o
         "\n" \o sender)

\* generate_email_body with the pain point of an unknown archetype taken from
\* the first profile of the table, not from "Mid-Market" (a fault C11 must detect)
generate_email_body_FirstProfile(row, company_dna, vp, sender) ==
    LET first_name == PyStr(row.first_name)
        company == PyStr(row.company)
        profile == DictGet(COMPANY_DNA_PROFILES, company_dna,
                           COMPANY_DNA_PROFILES["High-Growth Startup"])
        pain == profile.pain_points[1]
        all == templates(first_name, company, pain, vp, sender)
    IN  DictGet(all, company_dna, all["Mid-Market"])

generate_email_body(row, company_dna, vp, sender) ==
    LET first_name == PyStr(row.first_name)
        company == PyStr(row.company)
        profile == DictGet(COMPANY_DNA_PROFILES, company_dna,
                           COMPANY_DNA_PROFILES["Mid-Market"])
        pain == profile.pain_points[1]
        all == templates(first_name, company, pain, vp, sender)
    IN  DictGet(all, company_dna, all["Mid-Market"])

messages(first_name, company, vp) ==
    "High-Growth Startup" :>
        ("Hi " \o first_name \o " ~ impressed by " \o company \o
         "'s growth. I work on " \o vp \o
         " for scaling teams. Would love to connect and share ideas.") @@
    "Enterprise" :>
        ("Hi " \o first_name \o " ~ I help enterprise revenue teams with " \o
         vp \o ". Your work at " \o company \o
         " caught my attention. Let's connect.") @@
    "Mid-Market" :>
        ("Hi " \o first_name \o " ~ " \o company \o
         " looks like a great fit for some ideas I have on " \o vp \o
         ". Would love to connect.") @@
    "Agency/Consultancy" :>
        ("Hi " \o first_name \o " ~ I partner with agencies on " \o vp \o
         ". " \o company \o "'s approach resonates. Let's connect?")

\* Truncate with the slice cut at the limit itself, msg[:300] + "..." (a fault C3 must detect)
Truncate_SliceAtLimit(msg) ==
    IF Len(msg) > 300 THEN SubSeq(msg, 1, 300) \o "..." ELSE msg

\* line 195: msg[:295] + "..." if len(msg) > 300 else msg
Truncate(msg) ==
    IF Len(msg) > 300 THEN SubSeq(msg, 1, 295) \o "..." ELSE msg

generate_linkedin_message(row, company_dna, vp) ==
    LET first_name == PyStr(row.first_name)
        company == PyStr(row.company)
        all == messages(first_name, company, vp)
        msg == DictGet(all, company_dna, all["Mid-Market"])
    IN  Truncate(msg)

(***************************************************************************)
(* process_leads: one table row                                            *)
(*                                                                         *)
(* A row is the sequence of its <<column name, value>> cells, in column    *)
(* order.                                                                  *)
(***************************************************************************)
\* k.lower().replace(' ', '_')
NormKey(k) == Replace(Lower(k), " ", "_")

\* line 203: the dict comprehension; of two columns with the same normalised
\* name the later one stays
row_dict(row) ==
    LET norm == [i \in DOMAIN row |-> NormKey(row[i][1])]
        last(k) == CHOOSE i \in DOMAIN row :
                      /\ norm[i] = k
                      /\ \A j \in DOMAIN row : norm[j] = k => j <= i
    IN  [k \in {norm[i] : i \in DOMAIN row} |-> row[last(k)][2]]

\* d.get(k, default)
Get(d, k, default) == IF k \in DOMAIN d THEN d[k] ELSE default

\* row_dict.get('name'): None, which is false, when the key is absent
NameIsTruthy(d) == "name" \in DOMAIN d /\ Truthy(d["name"])

\* line 207, the innermost default, which Python evaluates before the two
\* enclosing get calls, whatever keys the row has:
\*   row_dict.get('name', 'there').split()[0] if row_dict.get('name') else 'there'
\* A value that is no str has no split (AttributeError); a str of whitespace
\* alone splits into no token (IndexError).
NameDefaultRaises(d) ==
    IF ~NameIsTruthy(d) THEN "None"
    ELSE IF d["name"].t # "str" THEN "AttributeError"
    ELSE IF SplitIsEmpty(d["name"].v) THEN "IndexError"
    ELSE "None"

NameDefault(d) ==
    IF NameIsTruthy(d) THEN Str(SplitFirst(d["name"].v)) ELSE Str("there")

\* lines 206-214
LeadData(d) ==
    [first_name |-> Get(d, "first_name", Get(d, "firstname", NameDefault(d))),
     last_name  |-> Get(d, "last_name", Get(d, "lastname", Str(""))),
     company    |-> Get(d, "company",
                        Get(d, "company_name", Get(d, "organization", Str("Unknown")))),
     title      |-> Get(d, "title", Get(d, "job_title", Get(d, "position", Str("")))),
     email      |-> Get(d, "email", Get(d, "email_address", Str(""))),
     linkedin   |-> Get(d, "linkedin",
                        Get(d, "linkedin_url", Get(d, "profile_url", Str("")))),
     employees  |-> Get(d, "employees",
                        Get(d, "company_size", Get(d, "size", Str(""))))]

\* line 217
CompanyDna(d, lead, auto) ==
    IF auto THEN Str(detect_company_dna(lead))
    ELSE Get(d, "company_dna", Str("Mid-Market"))

\* lines 221-233; the column names of the result, with "_" for their spaces
ResultRow(d, lead, vp, sender, auto) ==
    LET company_dna == CompanyDna(d, lead, auto)
    IN  [First_Name |-> lead.first_name,
         Last_Name |-> lead.last_name,
         Company |-> lead.company,
         Title |-> lead.title,
         Email |-> lead.email,
         LinkedIn |-> lead.linkedin,
         Priority |-> assign_priority(lead),
         Company_DNA |-> company_dna,
         Email_Subject |-> generate_email_subject(lead, company_dna, vp),
         Email_Body |-> generate_email_body(lead, company_dna, vp, sender),
         LinkedIn_Message |-> generate_linkedin_message(lead, company_dna, vp)]

(***************************************************************************)
(* process_leads as a state machine                                        *)
(*   df, value_prop, sender_name, auto_detect_dna: the arguments           *)
(*   idx: the rows the loop has finished; lead_data, results: the          *)
(*   lead_data and the result of each of them                              *)
(*   pc: "loop" in the for loop, "returned" after line 236, "raised" when  *)
(*   an exception left the function; exc: that exception                   *)
(***************************************************************************)
\* one iteration of the loop, lines 201-234
Iterate ==
    /\ pc = "loop"
    /\ idx < Len(df)
    /\ \E d \in {row_dict(df[idx + 1])} :
         \E err \in {NameDefaultRaises(d)} :
           IF err # "None"
           THEN /\ pc' = "raised"
                /\ exc' = err
                /\ UNCHANGED <<idx, lead_data, results>>
           ELSE \E lead \in {LeadData(d)} :
                    /\ lead_data' = Append(lead_data, lead)
                    /\ results' = Append(results,
                          ResultRow(d, lead, value_prop, sender_name, auto_detect_dna))
                    /\ idx' = idx + 1
                    /\ UNCHANGED <<pc, exc>>
    /\ UNCHANGED <<df, value_prop, sender_name, auto_detect_dna>>

\* line 236
Return ==
    /\ pc = "loop"
    /\ idx = Len(df)
    /\ pc' = "returned"
    /\ UNCHANGED <<df, value_prop, sender_name, auto_detect_dna,
                   idx, lead_data, results, exc>>

Next == Iterate \/ Return

\* the state at the call of process_leads
Start(table, vp, sender, auto) ==
    /\ df = table
    /\ value_prop = vp
    /\ sender_name = sender
    /\ auto_detect_dna = auto
    /\ idx = 0
    /\ lead_data = <<>>
    /\ results = <<>>
    /\ pc = "loop"
    /\ exc = "None"

(***************************************************************************)
(* Inputs                                                                  *)
(***************************************************************************)
\* every string made of at most n of the given pieces, one after the other
RECURSIVE Phrases(_, _)
Phrases(pieces, n) ==
    IF n = 0 THEN {""}
    ELSE LET shorter == Phrases(pieces, n - 1)
         IN  shorter \cup {p \o w : p \in shorter, w \in pieces}

\* every table of at most n rows drawn from rows
Tables(rows, n) == UNION {[1..k -> rows] : k \in 0..n}

MaxRows == 2

JaneRow ==
    << <<"name", Str("Jane Doe")>>, <<"company", Str("Acme Inc")>>,
       <<"title", Str("VP of Sales")>>, <<"employees", Str("800")>> >>

\* rows as a CSV gives them: columns present or not, under any of their
\* spellings, with text, empty text, an empty cell (NaN) or a number in them
Rows ==
    { JaneRow,
      << <<"name", Str("   ")>> >>,
      << <<"first_name", Str("Jane")>>, <<"name", Str(" ")>> >>,
      << <<"first_name", Str("")>>, <<"company", Str("Acme Partners")>> >>,
      << <<"First Name", NaN>>, <<"Company Name", Str("Acme Partners")>>,
         <<"Job Title", Str("Senior Director")>> >>,
      << <<"FIRSTNAME", Str("Al")>>, <<"Organization", Str("Beta Group Inc")>>,
         <<"Position", Str("Head of Ops")>>, <<"Size", Str("45")>>,
         <<"company_dna", Str("Foo")>> >>,
      << >>,
      << <<"name", NaN>> >>,
      << <<"name", Str("  Bo  Li")>>, <<"company", Str("Zed Corp")>>,
         <<"company_name", Str("Other")>>, <<"employees", PyInt("0")>>,
         <<"Company DNA", Str("Enterprise")>> >>,
      << <<"name", Str("")>>, <<"firstname", Str("Bo")>>,
         <<"first_name", Str("Cy")>>, <<"lastname", Str("Dee")>> >>,
      << <<"Name", Str("Ann Lee")>>, <<"name", Str("Zoe")>>,
         <<"organization", Str("Org")>>, <<"email_address", Str("z@o.rg")>> >>,
      << <<"last_name", Str("Doe")>>, <<"email", Str("a@b.c")>>,
         <<"linkedin_url", Str("in/doe")>>, <<"company_size", Str("1,000+")>>,
         <<"company_dna", NaN>> >> }

\* process_leads on a table of at most MaxRows rows
Init ==
    \E table \in Tables(Rows, MaxRows), auto \in BOOLEAN :
        Start(table, "X", "Y", auto)

Spec == Init /\ [][Next]_vars

----------------------------------------------------------------------------
\* detect_company_dna: one row with a company and an employees cell
MaxCompanyWords == 2

CompanyWords == {"Acme ", "Group", "PARTNERS ", "Inc", "consulting", "Global", "In"}

MaxEmployeesLen == 3

EmployeesChars == {"0", "4", "5", "9", "+", ",", " ", "a"}

EmployeesCells ==
    {Str(e) : e \in Phrases(EmployeesChars, MaxEmployeesLen)}
    \cup {Str("1,000+"), Str("-5"), Str("1_0"), Str("45.0"), Str("120"), Str("800"),
          NaN, PyInt("0"), PyInt("45"), PyInt("120"), PyInt("800")}

InitDna ==
    \E c \in Phrases(CompanyWords, MaxCompanyWords), e \in EmployeesCells,
       has \in BOOLEAN :
        /\ has \/ e = Str("")
        /\ Start(<< IF has THEN << <<"company", Str(c)>>, <<"employees", e>> >>
                           ELSE << <<"company", Str(c)>> >> >>, "X", "Y", TRUE)

SpecDna == InitDna /\ [][Next]_vars

----------------------------------------------------------------------------
\* assign_priority: one row with a title cell
MaxTitleWords == 2

TitleWords ==
    {"CEO", "cro", "Cmo", "COO ", "Chief ", "VP", "Vice President", "vice ",
     "president", "Head of ", "head", "of", "Director", "Senior ", "manager",
     "Lead", "lea", "d", "Account Executive", ", ", "c", "eo", "v", "p"}

TitleCells ==
    {Str(t) : t \in Phrases(TitleWords, MaxTitleWords)} \cup {NaN, PyInt("0")}

InitPriority ==
    \E t \in TitleCells, key \in {"title", "Job Title"} :
        Start(<< << <<key, t>> >> >>, "X", "Y", TRUE)

SpecPriority == InitPriority /\ [][Next]_vars

----------------------------------------------------------------------------
\* generate_linkedin_message: one row with a pre-assigned archetype, and a
\* value proposition of every length up to MaxPropLen
MaxPropLen == 230

\* n characters, the digits in turn (n <= 400)
PadSource ==
    LET ten == "1234567890"
        hundred == ten \o ten \o ten \o ten \o ten \o ten \o ten \o ten \o ten \o ten
    IN  hundred \o hundred \o hundred \o hundred

Pad(n) == SubSeq(PadSource, 1, n)

InitLinkedIn ==
    \E n \in 0..MaxPropLen,
       dna \in {<<>>} \cup {<< <<"company_dna", Str(a)>> >> :
                    a \in DOMAIN COMPANY_DNA_PROFILES \cup {"Foo"}},
       who \in {<<>>, << <<"first_name", Str("Jane")>> >>,
                << <<"first_name", NaN>>, <<"company", Str("Acme Inc")>> >>} :
        Start(<< who \o dna >>, Pad(n), "Y", FALSE)

SpecLinkedIn == InitLinkedIn /\ [][Next]_vars

----------------------------------------------------------------------------
\* the three generators: one row with a pre-assigned archetype cell that is a
\* key of the tables, text that is none (also a key in the wrong case and the
\* empty text), an empty cell or a number; or a row whose archetype is detected
ArchetypeCells ==
    {Str(a) : a \in DOMAIN COMPANY_DNA_PROFILES}
    \cup {Str("Foo"), Str("enterprise"), Str("Mid Market"), Str(""), NaN, PyInt("0")}

InitBundle ==
    \E who \in {<<>>, << <<"first_name", Str("Jane")>> >>,
                << <<"name", Str("Al Bo")>>, <<"company", Str("Acme Inc")>> >>,
                << <<"first_name", NaN>>, <<"company", Str("Beta Partners")>>,
                   <<"employees", Str("800")>> >>},
       dna \in {<<>>} \cup {<< <<"Company DNA", a>> >> : a \in ArchetypeCells},
       vp \in {"", "X", "revenue operations optimization", Pad(MaxPropLen)},
       auto \in BOOLEAN :
        Start(<< who \o dna >>, vp, "Y", auto)

SpecBundle == InitBundle /\ [][Next]_vars

(***************************************************************************)
(* Properties                                                              *)
(***************************************************************************)
CanonicalFields ==
    {"first_name", "last_name", "company", "title", "email", "linkedin", "employees"}

\* the normalised cells of row i of the table
CellsOf(i) == row_dict(df[i])

\* row i is one the loop has taken up: finished, or the one that raised
Taken(i) == i <= idx \/ (pc = "raised" /\ i = idx + 1)

----------------------------------------------------------------------------
\* C1: field normalization never raises: whatever keys and scalar values a
\* row has (an empty, whitespace-only or null name included, with or without
\* first_name), every row the loop takes up gets its lead_data and its
\* ResultRow, and no exception leaves process_leads.
C1_NormalizationNeverRaises ==
    /\ pc # "raised"
    /\ \A i \in 1..Len(df) : Taken(i) => i \in DOMAIN results

\* C2: the lead_data of every row has all seven canonical fields with a
\* non-null value, and its first_name is never the empty string, also when
\* a first_name, firstname or name cell is present but empty or null.
C2_CanonicalFieldsPopulated ==
    \A i \in DOMAIN lead_data :
        /\ DOMAIN lead_data[i] = CanonicalFields
        /\ \A f \in CanonicalFields : lead_data[i][f] # NaN
        /\ lead_data[i].first_name # Str("")

----------------------------------------------------------------------------
\* the connection message as rendered from the archetype's template, before
\* the length rule
Rendered(i) ==
    LET all == messages(PyStr(lead_data[i].first_name),
                        PyStr(lead_data[i].company), value_prop)
    IN  DictGet(all, results[i].Company_DNA, all["Mid-Market"])

----------------------------------------------------------------------------
\* the size classes of section "Archetype detection", rule 1
SizeClass(n) ==
    IF n < 50 THEN "High-Growth Startup"
    ELSE IF n <= 499 THEN "Mid-Market"
    ELSE "Enterprise"

RECURSIVE StripTrailingPlus(_)
StripTrailingPlus(s) ==
    IF s # "" /\ SubSeq(s, Len(s), Len(s)) = "+"
    THEN StripTrailingPlus(SubSeq(s, 1, Len(s) - 1))
    ELSE s

\* "employees parses as an integer after stripping commas and a trailing +",
\* of the text of the cell
CountOf(cell) == IntLiteral(StripTrailingPlus(Replace(PyStr(cell), ",", "")))

\* C4: with auto-detect on, whenever employees parses as an integer n after
\* stripping commas and a trailing "+", the archetype is the size class of n
\* (n < 50, 50..499, n >= 500), whatever the company name; 0 included.
C4_SizeRuleTakesPrecedence ==
    \A i \in DOMAIN results :
        LET count == CountOf(lead_data[i].employees)
        IN  auto_detect_dna /\ count.ok =>
                results[i].Company_DNA = Str(SizeClass(count.n))

\* C5: with auto-detect on, whenever employees is absent, empty or does not
\* parse as an integer, no error surfaces and the archetype is decided by the
\* keywords in the lower-cased company: consulting, agency, partners, group
\* give "Agency/Consultancy"; otherwise inc, corp, global, international give
\* "Enterprise"; otherwise "Mid-Market".
C5_KeywordRuleWithoutCount ==
    /\ pc # "raised"
    /\ \A i \in DOMAIN results :
        LET company == Lower(PyStr(lead_data[i].company))
            byKeyword ==
                IF \E w \in {"consulting", "agency", "partners", "group"} :
                       Contains(company, w)
                THEN "Agency/Consultancy"
                ELSE IF \E w \in {"inc", "corp", "global", "international"} :
                       Contains(company, w)
                THEN "Enterprise"
                ELSE "Mid-Market"
        IN  auto_detect_dna /\ ~CountOf(lead_data[i].employees).ok =>
                results[i].Company_DNA = Str(byKeyword)

\* What holds of detect_company_dna (not a claim): the size rule decides
\* exactly when the cell is true in Python's sense and its text parses once
\* every comma and every "+" is removed from it.
DnaAsCoded ==
    \A i \in DOMAIN results :
        LET cell == lead_data[i].employees
            count == IntLiteral(Replace(Replace(PyStr(cell), ",", ""), "+", ""))
        IN  auto_detect_dna =>
                results[i].Company_DNA =
                    Str(IF Truthy(cell) /\ count.ok THEN SizeClass(count.n)
                        ELSE KeywordRule(Lower(PyStr(lead_data[i].company))))

\* What holds of C4 (not a claim): C4 for the cells that are text.
C4_ForTextCells ==
    \A i \in DOMAIN results :
        LET count == CountOf(lead_data[i].employees)
        IN  auto_detect_dna /\ lead_data[i].employees.t = "str" /\ count.ok =>
                results[i].Company_DNA = Str(SizeClass(count.n))

----------------------------------------------------------------------------
TierOne == {"ceo", "cro", "cmo", "coo", "chief", "vp", "vice president", "head of"}

TierTwo == {"director", "senior", "manager", "lead"}

\* C6: the priority is exactly one of the three tiers, by case-insensitive
\* substring match on the title, the first match winning: "P1 - Hot" if the
\* title has a tier-1 keyword, also when it has a tier-2 keyword too;
\* otherwise "P2 - Warm" if it has a tier-2 keyword; otherwise "P3 - Nurture".
C6_PriorityByTitle ==
    \A i \in DOMAIN results :
        LET title == Lower(PyStr(lead_data[i].title))
            one == \E w \in TierOne : Contains(title, w)
            two == \E w \in TierTwo : Contains(title, w)
            priority == results[i].Priority
        IN  /\ priority \in {"P1 - Hot", "P2 - Warm", "P3 - Nurture"}
            /\ one => priority = "P1 - Hot"
            /\ ~one /\ two => priority = "P2 - Warm"
            /\ ~one /\ ~two => priority = "P3 - Nurture"
            /\ lead_data[i].title = Str("Account Executive") => priority = "P3 - Nurture"

\* a title with "VP" and "Director" in it, ranked P1
C6_Witness ==
    \E i \in DOMAIN results :
        /\ lead_data[i].title = Str("VPDirector")
        /\ results[i].Priority = "P1 - Hot"
----------------------------------------------------------------------------
\* the ResultRow of row i computed from that row and the parameters alone
ResultOf(i) ==
    ResultRow(CellsOf(i), LeadData(CellsOf(i)), value_prop, sender_name,
              auto_detect_dna)

\* C7: for any N-row table and any parameters process_leads returns a table
\* of exactly N rows, whose row i is the ResultRow computed from input row i
\* alone: same order, no row filtered, duplicated, merged or reordered.
C7_RowCountAndOrder ==
    pc # "loop" =>
        /\ pc = "returned"
        /\ Len(results) = Len(df)
        /\ \A i \in 1..Len(df) : results[i] = ResultOf(i)

\* What holds of C7 (not a claim): the table that is returned, when one is.
C7_OfReturnedTables ==
    /\ Len(results) = idx
    /\ \A i \in DOMAIN results : results[i] = ResultOf(i)
    /\ pc = "returned" => Len(results) = Len(df)

----------------------------------------------------------------------------
\* the first of the keys, in their order, that the normalised row has
RECURSIVE FirstPresent(_, _, _)
FirstPresent(cells, chain, default) ==
    IF chain = <<>> THEN default
    ELSE IF Head(chain) \in DOMAIN cells THEN cells[Head(chain)]
    ELSE FirstPresent(cells, Tail(chain), default)

\* the first whitespace-delimited token of name, else "there"
NameToken(cells) ==
    IF /\ "name" \in DOMAIN cells
       /\ cells["name"].t = "str"
       /\ LStrip(cells["name"].v) # ""
    THEN Str(Word(LStrip(cells["name"].v)))
    ELSE Str("there")

\* C8: the keys of a row are lower-cased, with "_" for their spaces, and each
\* canonical field is the value of the first present key of its chain:
\* company from company, company_name, organization, else "Unknown";
\* first_name from first_name, firstname, else the first token of name, else
\* "there"; a later synonym counts only when every earlier one is absent.
C8_SynonymChain ==
    \A i \in 1..Len(df) :
        Taken(i) =>
            /\ i \in DOMAIN lead_data
            /\ DOMAIN CellsOf(i) =
                   {Replace(Lower(df[i][j][1]), " ", "_") : j \in DOMAIN df[i]}
            /\ lead_data[i].company =
                   FirstPresent(CellsOf(i), <<"company", "company_name", "organization">>,
                                Str("Unknown"))
            /\ lead_data[i].first_name =
                   FirstPresent(CellsOf(i), <<"first_name", "firstname">>,
                                NameToken(CellsOf(i)))

\* What holds of C8 (not a claim): the chains, of the rows that got a
\* lead_data.
C8_OfNormalizedRows ==
    \A i \in DOMAIN lead_data :
        /\ lead_data[i].company =
               FirstPresent(CellsOf(i), <<"company", "company_name", "organization">>,
                            Str("Unknown"))
        /\ lead_data[i].first_name =
               FirstPresent(CellsOf(i), <<"first_name", "firstname">>,
                            NameToken(CellsOf(i)))

----------------------------------------------------------------------------
\* row i is the scenario of C9, run with its parameters
IsScenario(i) ==
    /\ df[i] = JaneRow
    /\ value_prop = "X"
    /\ sender_name = "Y"
    /\ auto_detect_dna

ScenarioBody ==
    "Hi Jane,\n\nI've been following Acme Inc's trajectory and wa" \o
    "nted to reach out with a relevant observation.\n\nMany enter" \o
    "prise revenue leaders I work with are navigating legacy syst" \o
    "ems while trying to drive predictable growth. I specialize i" \o
    "n X ~ helping teams like yours turn operational complexity i" \o
    "nto competitive advantage.\n\nWould you be open to a brief c" \o
    "onversation to explore alignment?\n\nBest regards,\nY"

\* C9 as stated: for the row {name: "Jane Doe", company: "Acme Inc", title:
\* "VP of Sales", employees: "800"} with value_prop "X", sender_name "Y" and
\* auto-detect on, the Company DNA is "Enterprise", the Priority "P1 - Hot",
\* and both the Email Subject and the Email Body are Enterprise templates
\* with the first name "Jane" interpolated.
C9_ScenarioAsStated ==
    \A i \in DOMAIN results :
        IsScenario(i) =>
            /\ results[i].Company_DNA = Str("Enterprise")
            /\ results[i].Priority = "P1 - Hot"
            /\ \E k \in 1..3 :
                   results[i].Email_Subject =
                       subjects("Jane", "Acme Inc", "X")["Enterprise"][k]
            /\ Contains(results[i].Email_Subject, "Jane")
            /\ results[i].Email_Body = ScenarioBody
            /\ Contains(results[i].Email_Body, "Jane")

\* C9, amended: in that scenario the Company DNA is "Enterprise", the
\* Priority "P1 - Hot", the Email Body the Enterprise body with "Jane"
\* interpolated, and the Email Subject the first Enterprise subject, which
\* interpolates the company alone and has no first name in it.
C9_Scenario ==
    \A i \in DOMAIN results :
        IsScenario(i) =>
            /\ results[i].First_Name = Str("Jane")
            /\ results[i].Company_DNA = Str("Enterprise")
            /\ results[i].Priority = "P1 - Hot"
            /\ results[i].Email_Subject =
                   "Strategic alignment: Acme Inc revenue operations"
            /\ ~Contains(results[i].Email_Subject, "Jane")
            /\ results[i].Email_Body = ScenarioBody

\* the scenario's row has its result
C9_Witness ==
    \E i \in DOMAIN results : IsScenario(i) /\ results[i].Priority = "P1 - Hot"

----------------------------------------------------------------------------
\* C10: in every ResultRow, with auto-detect on or off, the Company DNA is
\* one of the four keys of COMPANY_DNA_PROFILES; with auto-detect off it is
\* the row's pre-assigned archetype, or "Mid-Market" when the row has none.
C10_DnaIsProfileKey ==
    \A i \in DOMAIN results :
        /\ results[i].Company_DNA.t = "str"
        /\ results[i].Company_DNA.v \in DOMAIN COMPANY_DNA_PROFILES
        /\ ~auto_detect_dna =>
               results[i].Company_DNA =
                   FirstPresent(CellsOf(i), <<"company_dna">>, Str("Mid-Market"))

\* What holds of C10 (not a claim): a detected archetype is a profile key,
\* and a pre-assigned one is handed on as it is, whatever it is.
C10_AsCoded ==
    \A i \in DOMAIN results :
        IF auto_detect_dna
        THEN /\ results[i].Company_DNA.t = "str"
             /\ results[i].Company_DNA.v \in DOMAIN COMPANY_DNA_PROFILES
        ELSE results[i].Company_DNA =
                 FirstPresent(CellsOf(i), <<"company_dna">>, Str("Mid-Market"))
----------------------------------------------------------------------------
\* the "Mid-Market" bundle, as lines 112, 157-166 and 190 write it
MidMarketSubject(first_name, company) ==
    first_name \o " - " \o company \o "'s next growth lever"

MidMarketBody(first_name, company, pain, vp, sender) ==
    "Hi " \o first_name \o ",\n\n" \o
    "Quick note ~ I work with mid-market companies like " \o company \o
    " on " \o vp \o ".\n\n" \o
    "The common challenge I see: " \o pain \o
    ". The solution doesn't have to be complex.\n\n" \o
    "If this resonates, I'd love to share a framework that's helped " \o
    "similar teams. 15 minutes ~ no pitch, just value.\n\n" \o
    "Best,\n" \o sender

MidMarketMessage(first_name, company, vp) ==
    "Hi " \o first_name \o " ~ " \o company \o
    " looks like a great fit for some ideas I have on " \o vp \o
    ". Would love to connect."

\* the length rule of the connection message (C3)
Cut(msg) == IF Len(msg) <= 300 THEN msg ELSE SubSeq(msg, 1, 295) \o "..."

\* the Company DNA of result i is a key of the template tables
IsKnownArchetype(i) ==
    /\ results[i].Company_DNA.t = "str"
    /\ results[i].Company_DNA.v \in DOMAIN COMPANY_DNA_PROFILES

\* C11: for an archetype that is no key of the template tables the three
\* generators fall back alike to the "Mid-Market" bundle: the subject is the
\* first Mid-Market subject, the body the Mid-Market body with the Mid-Market
\* profile's first pain point, the connection message the Mid-Market message;
\* for a known archetype the subject is the first of that archetype's list
\* and the body that archetype's body with that archetype's first pain point.
C11_MidMarketFallback ==
    \A i \in DOMAIN results :
        LET first_name == PyStr(lead_data[i].first_name)
            company == PyStr(lead_data[i].company)
            r == results[i]
        IN  IF IsKnownArchetype(i)
            THEN LET a == r.Company_DNA.v
                     pain == COMPANY_DNA_PROFILES[a].pain_points[1]
                 IN  /\ r.Email_Subject = subjects(first_name, company, value_prop)[a][1]
                     /\ r.Email_Body =
                            templates(first_name, company, pain, value_prop,
                                      sender_name)[a]
                     /\ Contains(r.Email_Body, pain)
            ELSE /\ r.Email_Subject = MidMarketSubject(first_name, company)
                 /\ r.Email_Body =
                        MidMarketBody(first_name, company, "growing pains",
                                      value_prop, sender_name)
                 /\ r.LinkedIn_Message =
                        Cut(MidMarketMessage(first_name, company, value_prop))

\* a result whose archetype, "enterprise", is no key of the tables, with the
\* Mid-Market subject and the Mid-Market pain point in its body
C11_Witness ==
    \E i \in DOMAIN results :
        /\ results[i].Company_DNA = Str("enterprise")
        /\ ~IsKnownArchetype(i)
        /\ results[i].Email_Subject = "Jane - Unknown's next growth lever"
        /\ Contains(results[i].Email_Body, "growing pains")
====
